---- MODULE Spec2Model ----
(***************************************************************************)
(* A model of plastic-labs/discord-python-starter:                         *)
(*   - src/src/honcho_utils.py : get_session, honcho_transaction           *)
(*   - src/src/bot.py          : the bot (rate limiter, on_message,        *)
(*                               restart, dialectic)                       *)
(*   - src/bot.py              : the starter bot (on_message, restart)     *)
(*   - src/tools/github/       : GitHubTool, RepoInfo, GitHubConfig        *)
(* The Honcho store is a remote service; it is modelled by the calls the   *)
(* code makes on it.  The event loop is asyncio's with the synchronous     *)
(* Honcho client: a handler runs without interruption from one `await` to  *)
(* the next, so one action is one such segment of a handler.               *)
(***************************************************************************)
EXTENDS Integers, Sequences, FiniteSets, TLC

VARIABLES
    now,                  \* time.time(), in seconds, never decreasing
    response_timestamps,  \* channel -> deque of response times
    channel_rate_limits,  \* the loaded rate_limits.json: a dict on some channels
    rate_limit_default,   \* RATE_LIMIT_PER_MINUTE
    sessions,             \* the store's sessions, in creation order; id = index
    messages,             \* session id -> the session's log of turns
    pc,                   \* flow -> where the handler it runs is suspended
    frame,                \* flow -> the handler's local variables
    events,               \* number of events delivered so far
    report,               \* flow -> the message it handled last and how that ended
    recorded,             \* history: channel -> every time record_response ran
    last_admit,           \* history: the last is_rate_limited call
    last_resolve,         \* history: the last session resolution
    resolved,             \* history: (user, channel) -> session of the last
                          \*   create=True resolution since the last reset
    deleted,              \* history: ids a sessions.delete call was issued for
    transaction_id,       \* honcho.transaction_id of the shared client
    txn_status,           \* the store's transactions, id = index
    txn_owner,            \* history: transaction -> the flow whose scope began it
    txn_exited,           \* history: transactions whose scope has been left
    writes,               \* requests issued through the client inside/outside scopes
    scopes,               \* flow -> stack of open honcho_transaction scopes
    response_content,     \* send_discord_message: the text to send
    chunk_limit,          \* send_discord_message: the size limit (1500 in the code)
    chunks,               \* send_discord_message: the chunks it sends
    delivered,            \* the chunks channel.send has delivered, in order
    send_pc,              \* where send_discord_message is
    config,               \* GitHubTool: the GitHubConfig it is given
    ctor,                 \* GitHubTool: how __init__ ended
    repos,                \* GitHubTool.repos
    has_clone_locks,      \* GitHubTool: the attribute _clone_locks exists
    clone_locks,          \* GitHubTool._clone_locks: URL -> lock, by creation number
    locks_created,        \* asyncio.Lock objects created so far
    stats,                \* GitHubTool.stats
    initialized,          \* GitHubTool._initialized
    disk,                 \* the local paths that hold a checkout (with .git)
    last_call,            \* history: the last call on the tool and its result
    found_missing,        \* history: URLs initialize found NOT_CLONED
    calls                 \* number of calls made on the tool

vars == <<now, response_timestamps, channel_rate_limits, rate_limit_default,
          sessions, messages, pc, frame, events, report, recorded, last_admit,
          last_resolve, resolved, deleted, transaction_id, txn_status,
          txn_owner, txn_exited, writes, scopes,
          response_content, chunk_limit, chunks, delivered, send_pc,
          config, ctor, repos, has_clone_locks, clone_locks, locks_created,
          stats, initialized, disk, last_call, found_missing, calls>>

rateVars == <<now, response_timestamps, recorded, last_admit>>
rateCfg  == <<channel_rate_limits, rate_limit_default>>
storeVars == <<sessions, messages>>
resolveHist == <<last_resolve, resolved, deleted>>
txnVars == <<transaction_id, txn_status, txn_owner, txn_exited, writes, scopes>>
splitVars == <<response_content, chunk_limit, chunks, delivered, send_pc>>
toolVars == <<config, ctor, repos, has_clone_locks, clone_locks, locks_created,
              stats, initialized, disk, last_call, found_missing, calls>>
\* the state of the components the handlers of the bots leave alone
otherVars == <<splitVars, toolVars>>
\* the state of the bots and of the store
botVars == <<rateVars, rateCfg, storeVars, resolveHist, txnVars, pc, frame,
             events, report>>

(***************************************************************************)
(* Inputs                                                                  *)
(***************************************************************************)
Users == {"u1", "u2"}
Chans == {"c1", "c2"}
Flows == {"f1", "f2"}
\* the (user, channel) pairs events come from: one user in two channels and
\* two users in one channel
Pairs == {<<"u1", "c1">>, <<"u1", "c2">>, <<"u2", "c1">>}

None == 0

\* Bounds of the model
MaxEvents == 3       \* events delivered in a run
MaxChunks == 2       \* chunks one response is sent in
MaxTxns == 2         \* transactions begun in a run
MaxDepth == 2        \* honcho_transaction scopes one flow nests
MaxRequests == 2     \* requests issued through the client in a run
MaxTime == 93        \* the clock stops here
MaxLen == 5          \* characters of a text
MaxLimit == 3        \* the largest size limit
MaxRepos == 3        \* URLs in repos_to_clone
MaxCalls == 3        \* calls made on a GitHubTool
MaxStored == 2       \* sessions the store holds when the bot starts
MaxResolves == 2     \* resolver calls on a store that held sessions at the start

NoFrame == [user |-> "-", chan |-> "-", session |-> None, input |-> 0, left |-> 0]
NoResolve == [user |-> "-", chan |-> "-", create |-> FALSE, session |-> None,
              is_new |-> FALSE, created |-> FALSE, prev |-> None, stale |-> FALSE,
              printed |-> {}]

(***************************************************************************)
(* The store's session calls                                               *)
(***************************************************************************)
\* a set of session ids as the sequence the store lists them in
RECURSIVE InOrder(_, _)
InOrder(ids, reverse) ==
    IF ids = {} THEN <<>>
    ELSE LET first == IF reverse
                      THEN CHOOSE i \in ids : \A j \in ids : j <= i
                      ELSE CHOOSE i \in ids : \A j \in ids : i <= j
         IN <<first>> \o InOrder(ids \ {first}, reverse)

\* faulty variant of sessions_list: the is_active filter keeps the inactive
\* sessions
sessions_list_inverted(S, user_id, is_active, filter, reverse) ==
    InOrder({i \in 1..Len(S) :
                /\ S[i].owner = user_id
                /\ (is_active => ~S[i].is_active)
                /\ filter \subseteq S[i].metadata}, reverse)

\* sessions.list(app_id, user_id, is_active=..., filter=..., reverse=...):
\* is_active=True keeps the active sessions only, without it every session of
\* the user is listed; filter keeps the sessions whose metadata contains it
sessions_list(S, user_id, is_active, filter, reverse) ==
    InOrder({i \in 1..Len(S) :
                /\ S[i].owner = user_id
                /\ (is_active => S[i].is_active)
                /\ filter \subseteq S[i].metadata}, reverse)

\* sessions.create(user_id, app_id, metadata): a new active session, fresh id
sessions_create(S, user_id, metadata) ==
    Append(S, [owner |-> user_id, metadata |-> metadata, is_active |-> TRUE])

\* sessions.delete(app_id, user_id, session_id): the session is marked inactive
sessions_delete(S, session_id) ==
    [S EXCEPT ![session_id].is_active = FALSE]

(***************************************************************************)
(* honcho_utils.get_session                                                *)
(***************************************************************************)
\* what get_session prints before it creates a session
PrintedOnCreate == {"No active session found, creating new one"}

\* faulty variant of the pick: the session with the greatest id listed
pick_session_last(found) ==
    CHOOSE i \in {found[k] : k \in 1..Len(found)} :
        \A k \in 1..Len(found) : found[k] <= i

\* sessions[0]: the session the store lists first
pick_session(found) == found[1]

\* faulty variant of get_session: it creates without looking for a session
get_session_no_lookup(S, user_id, custom_metadata, create) ==
    IF create
    THEN [session |-> Len(S) + 1, is_new |-> TRUE,
          store |-> sessions_create(S, user_id, custom_metadata),
          printed |-> PrintedOnCreate]
    ELSE [session |-> None, is_new |-> FALSE, store |-> S, printed |-> {}]

\* faulty variant of get_session: `create` is not looked at and taken as True
get_session_always_creates(S, user_id, custom_metadata, create) ==
    LET found == sessions_list(S, user_id, TRUE, custom_metadata, FALSE)
    IN IF found # <<>>
       THEN [session |-> pick_session(found), is_new |-> FALSE, store |-> S,
             printed |-> {}]
       ELSE [session |-> Len(S) + 1, is_new |-> TRUE,
             store |-> sessions_create(S, user_id, custom_metadata),
             printed |-> PrintedOnCreate]

\* faulty variant of get_session: `create` is not looked at and taken as False
get_session_never_creates(S, user_id, custom_metadata, create) ==
    LET found == sessions_list(S, user_id, TRUE, custom_metadata, FALSE)
    IN IF found # <<>>
       THEN [session |-> pick_session(found), is_new |-> FALSE, store |-> S,
             printed |-> {}]
       ELSE [session |-> None, is_new |-> FALSE, store |-> S, printed |-> {}]

\* the (session, is_new) the call returns, the store it leaves and what it
\* has printed
get_session(S, user_id, custom_metadata, create) ==
    LET found == sessions_list(S, user_id, TRUE, custom_metadata, FALSE)
    IN IF found # <<>>
       THEN [session |-> pick_session(found), is_new |-> FALSE, store |-> S,
             printed |-> {}]
       ELSE IF create
            THEN [session |-> Len(S) + 1, is_new |-> TRUE,
                  store |-> sessions_create(S, user_id, custom_metadata),
                  printed |-> PrintedOnCreate]
            ELSE [session |-> None, is_new |-> FALSE, store |-> S, printed |-> {}]

\* bot.get_session_from_discord: the metadata is {location_id: True}
LocationMeta(channel_id) == {<<channel_id, TRUE>>}

\* faulty variant of get_session_from_discord: the location is left out of
\* the metadata it asks for
get_session_from_discord_any_location(S, channel_id, user_id) ==
    LET r == get_session(S, user_id, {}, TRUE)
    IN [r EXCEPT !.printed = IF r.is_new THEN @ \cup {"INFO: New session created"}
                                         ELSE @]

\* the session is asserted to exist; a new one is logged at INFO level
get_session_from_discord(S, channel_id, user_id) ==
    LET r == get_session(S, user_id, LocationMeta(channel_id), TRUE)
    IN [r EXCEPT !.printed = IF r.is_new THEN @ \cup {"INFO: New session created"}
                                         ELSE @]

\* history of a resolution of (u, c) that returned r from the store S
Resolution(u, c, create, r, S) ==
    [user |-> u, chan |-> c, create |-> create, session |-> r.session,
     is_new |-> r.is_new, created |-> Len(r.store) > Len(S),
     prev |-> resolved[u, c], stale |-> r.session \in deleted,
     printed |-> r.printed]

(***************************************************************************)
(* The rate limiter of src/src/bot.py                                      *)
(***************************************************************************)
\* the window of is_rate_limited, in seconds
Window == 60

\* channel_rate_limits.get(channel_id, RATE_LIMIT_PER_MINUTE)
get_rate_limit_for_channel(channel_id) ==
    IF channel_id \in DOMAIN channel_rate_limits
    THEN channel_rate_limits[channel_id]
    ELSE rate_limit_default

RECURSIVE evict(_, _)

\* faulty variant of the eviction loop: a timestamp of exactly 60 s is evicted
evict_at_window(channel_timestamps, current_time) ==
    IF channel_timestamps # <<>> /\ current_time - Head(channel_timestamps) >= Window
    THEN evict(Tail(channel_timestamps), current_time)
    ELSE channel_timestamps

\* faulty variant of the eviction loop: an `if` in place of the `while`
evict_once(channel_timestamps, current_time) ==
    IF channel_timestamps # <<>> /\ current_time - Head(channel_timestamps) > Window
    THEN Tail(channel_timestamps)
    ELSE channel_timestamps

\* while channel_timestamps and current_time - channel_timestamps[0] > 60: popleft()
evict(channel_timestamps, current_time) ==
    IF channel_timestamps # <<>> /\ current_time - Head(channel_timestamps) > Window
    THEN evict(Tail(channel_timestamps), current_time)
    ELSE channel_timestamps

\* faulty variant of is_rate_limited: `>` in place of `>=`
is_rate_limited_above(channel_id) ==
    Len(evict(response_timestamps[channel_id], now))
        > get_rate_limit_for_channel(channel_id)

\* the value is_rate_limited returns, on the deque it has evicted
is_rate_limited(channel_id) ==
    Len(evict(response_timestamps[channel_id], now))
        >= get_rate_limit_for_channel(channel_id)

\* faulty variant of is_rate_limited: an admitted call records its response
AdmissionRecording(channel_id) ==
    /\ response_timestamps' =
           [response_timestamps EXCEPT
               ![channel_id] =
                   IF is_rate_limited(channel_id)
                   THEN evict(response_timestamps[channel_id], now)
                   ELSE Append(evict(response_timestamps[channel_id], now), now)]
    /\ last_admit' = [chan |-> channel_id, at |-> now,
                      limited |-> is_rate_limited(channel_id),
                      seen |-> Len(recorded[channel_id])]

\* faulty variant of is_rate_limited: a call that denies empties the deque
AdmissionClearing(channel_id) ==
    /\ response_timestamps' =
           [response_timestamps EXCEPT
               ![channel_id] = IF is_rate_limited(channel_id)
                               THEN <<>>
                               ELSE evict(response_timestamps[channel_id], now)]
    /\ last_admit' = [chan |-> channel_id, at |-> now,
                      limited |-> is_rate_limited(channel_id),
                      seen |-> Len(recorded[channel_id])]

\* the effect of an is_rate_limited(channel_id) call on the limiter's state
Admission(channel_id) ==
    /\ response_timestamps' =
           [response_timestamps EXCEPT
               ![channel_id] = evict(response_timestamps[channel_id], now)]
    /\ last_admit' = [chan |-> channel_id, at |-> now,
                      limited |-> is_rate_limited(channel_id),
                      seen |-> Len(recorded[channel_id])]

\* faulty variant of record_response: one deque shared by all the channels
record_response_shared(channel_id) ==
    /\ response_timestamps' =
           [c \in Chans |-> Append(response_timestamps[c], now)]
    /\ recorded' = [recorded EXCEPT ![channel_id] = Append(@, now)]

\* faulty variant of record_response: appendleft in place of append
record_response_front(channel_id) ==
    /\ response_timestamps' =
           [response_timestamps EXCEPT ![channel_id] = <<now>> \o @]
    /\ recorded' = [recorded EXCEPT ![channel_id] = Append(@, now)]

\* faulty variant of record_response: the timestamp is appended twice
record_response_twice(channel_id) ==
    /\ response_timestamps' =
           [response_timestamps EXCEPT ![channel_id] = Append(Append(@, now), now)]
    /\ recorded' = [recorded EXCEPT ![channel_id] = Append(Append(@, now), now)]

\* response_timestamps[channel_id].append(time.time())
record_response(channel_id) ==
    /\ response_timestamps' =
           [response_timestamps EXCEPT ![channel_id] = Append(@, now)]
    /\ recorded' = [recorded EXCEPT ![channel_id] = Append(@, now)]

(***************************************************************************)
(* The handlers of src/src/bot.py                                          *)
(***************************************************************************)
\* the logs after a resolution: a created session starts with an empty log
Logs(M, S) == IF Len(S) > Len(M) THEN Append(M, <<>>) ELSE M

\* how the handler of message m ended: it returned ("ok") or raised ("error";
\* "unsaved" when messages.batch raised after the response was sent)
Ended(m, how) == [msg |-> m, how |-> how]

Turn(m, is_user) == [msg |-> m, is_user |-> is_user]

\* messages.batch(session_id, messages=[user turn, assistant turn])
messages_batch(M, session_id, m) ==
    [M EXCEPT ![session_id] = @ \o <<Turn(m, TRUE), Turn(m, FALSE)>>]

\* on_message up to its first await.  respond: should_respond(message) and the
\* sanitized content is not empty.
OnMessage(f, u, c, respond) ==
    /\ pc[f] = "idle"
    /\ events' = events + 1
    /\ \/ /\ ~respond
          /\ UNCHANGED <<pc, frame, report, rateVars, storeVars, resolveHist>>
       \/ /\ respond
          /\ is_rate_limited(c)
          /\ Admission(c)
          /\ pc' = [pc EXCEPT ![f] = "notice"]
          /\ frame' = [frame EXCEPT ![f] = [NoFrame EXCEPT !.user = u, !.chan = c]]
          /\ UNCHANGED <<report, now, recorded, storeVars, resolveHist>>
       \/ /\ respond
          /\ ~is_rate_limited(c)
          /\ Admission(c)
          /\ LET r == get_session_from_discord(sessions, c, u)
             IN /\ sessions' = r.store
                /\ messages' = Logs(messages, r.store)
                /\ last_resolve' = Resolution(u, c, TRUE, r, sessions)
                /\ resolved' = [resolved EXCEPT ![u, c] = r.session]
                /\ frame' = [frame EXCEPT ![f] =
                       [user |-> u, chan |-> c, session |-> r.session,
                        input |-> events + 1, left |-> 0]]
          /\ pc' = [pc EXCEPT ![f] = "typing"]
          /\ UNCHANGED <<report, now, recorded, deleted>>
    /\ UNCHANGED <<rateCfg, otherVars, txnVars>>

\* await message.channel.send(RATE_LIMIT_MESSAGE); return
NoticeSent(f) ==
    /\ pc[f] = "notice"
    /\ pc' = [pc EXCEPT ![f] = "idle"]
    /\ frame' = [frame EXCEPT ![f] = NoFrame]
    /\ UNCHANGED <<events, report, rateVars, rateCfg, otherVars, storeVars, resolveHist, txnVars>>

\* the typing context is entered (or entering it raises), llm() answers (it
\* catches every error) and send_discord_message awaits the send of the first
\* of k chunks
Typing(f, k, entered) ==
    /\ pc[f] = "typing"
    /\ IF entered
       THEN /\ pc' = [pc EXCEPT ![f] = "sending"]
            /\ frame' = [frame EXCEPT ![f].left = k]
            /\ UNCHANGED report
       ELSE /\ pc' = [pc EXCEPT ![f] = "idle"]
            /\ frame' = [frame EXCEPT ![f] = NoFrame]
            /\ report' = [report EXCEPT ![f] = Ended(frame[f].input, "error")]
    /\ UNCHANGED <<events, rateVars, rateCfg, otherVars, storeVars, resolveHist, txnVars>>

\* an awaited channel.send returns or raises; after the last chunk the handler
\* runs on to record_response and messages.batch
Sent(f, sent, saved) ==
    /\ pc[f] = "sending"
    /\ \/ /\ ~sent
          /\ pc' = [pc EXCEPT ![f] = "idle"]
          /\ frame' = [frame EXCEPT ![f] = NoFrame]
          /\ report' = [report EXCEPT ![f] = Ended(frame[f].input, "error")]
          /\ UNCHANGED <<rateVars, storeVars>>
       \/ /\ sent
          /\ frame[f].left > 1
          /\ frame' = [frame EXCEPT ![f].left = @ - 1]
          /\ UNCHANGED <<pc, report, rateVars, storeVars>>
       \/ /\ sent
          /\ frame[f].left = 1
          /\ record_response(frame[f].chan)
          /\ messages' = IF saved
                         THEN messages_batch(messages, frame[f].session, frame[f].input)
                         ELSE messages
          /\ pc' = [pc EXCEPT ![f] = "idle"]
          /\ frame' = [frame EXCEPT ![f] = NoFrame]
          /\ report' = [report EXCEPT ![f] =
                 Ended(frame[f].input, IF saved THEN "ok" ELSE "unsaved")]
          /\ UNCHANGED <<now, last_admit, sessions>>
    /\ UNCHANGED <<events, rateCfg, otherVars, resolveHist, txnVars>>

\* /restart: async with ctx.typing() is awaited
Restart(f, u, c) ==
    /\ pc[f] = "idle"
    /\ events' = events + 1
    /\ pc' = [pc EXCEPT ![f] = "restarting"]
    /\ frame' = [frame EXCEPT ![f] = [NoFrame EXCEPT !.user = u, !.chan = c]]
    /\ UNCHANGED <<report, rateVars, rateCfg, otherVars, storeVars, resolveHist, txnVars>>

\* the body of restart: the session is resolved with create=True and deleted
RestartBody(f) ==
    /\ pc[f] = "restarting"
    /\ LET u == frame[f].user
           c == frame[f].chan
           r == get_session_from_discord(sessions, c, u)
       IN /\ sessions' = IF r.session # None
                         THEN sessions_delete(r.store, r.session)
                         ELSE r.store
          /\ messages' = Logs(messages, r.store)
          /\ last_resolve' = Resolution(u, c, TRUE, r, sessions)
          /\ resolved' = [resolved EXCEPT ![u, c] =
                              IF r.session # None THEN None ELSE r.session]
          /\ deleted' = IF r.session # None THEN deleted \cup {r.session} ELSE deleted
    /\ pc' = [pc EXCEPT ![f] = "idle"]
    /\ frame' = [frame EXCEPT ![f] = NoFrame]
    /\ UNCHANGED <<events, report, rateVars, rateCfg, otherVars, txnVars>>

\* /dialectic: await ctx.defer()
Dialectic(f, u, c) ==
    /\ pc[f] = "idle"
    /\ events' = events + 1
    /\ pc' = [pc EXCEPT ![f] = "deferred"]
    /\ frame' = [frame EXCEPT ![f] = [NoFrame EXCEPT !.user = u, !.chan = c]]
    /\ UNCHANGED <<report, rateVars, rateCfg, otherVars, storeVars, resolveHist, txnVars>>

\* the body of dialectic: the session is resolved with create=True and queried
DialecticBody(f) ==
    /\ pc[f] = "deferred"
    /\ LET u == frame[f].user
           c == frame[f].chan
           r == get_session_from_discord(sessions, c, u)
       IN /\ sessions' = r.store
          /\ messages' = Logs(messages, r.store)
          /\ last_resolve' = Resolution(u, c, TRUE, r, sessions)
          /\ resolved' = [resolved EXCEPT ![u, c] = r.session]
    /\ pc' = [pc EXCEPT ![f] = "idle"]
    /\ frame' = [frame EXCEPT ![f] = NoFrame]
    /\ UNCHANGED <<events, report, deleted, rateVars, rateCfg, otherVars, txnVars>>

\* a call get_session(honcho, app_id, user_id, {location_id: True}, create=False)
Lookup(u, c) ==
    /\ events' = events + 1
    /\ LET r == get_session(sessions, u, LocationMeta(c), FALSE)
       IN /\ sessions' = r.store
          /\ messages' = Logs(messages, r.store)
          /\ last_resolve' = Resolution(u, c, FALSE, r, sessions)
    /\ UNCHANGED <<pc, frame, report, resolved, deleted, rateVars, rateCfg, otherVars, txnVars>>

\* time passes
Tick(d) ==
    /\ now' = now + d
    /\ UNCHANGED <<response_timestamps, recorded, last_admit, rateCfg, otherVars, storeVars,
                   pc, frame, events, report, resolveHist, txnVars>>

(***************************************************************************)
(* The handlers of src/bot.py, the starter bot                             *)
(***************************************************************************)
\* the metadata of the starter's sessions is {"location_id": location_id}
StarterMeta(location_id) == {<<"location_id", location_id>>}

\* sessions.list(app_id, user_id, reverse=True), then the first session whose
\* metadata.get("location_id") is location_id, else a created one
starter_session(S, user_id, location_id) ==
    LET listed == sessions_list(S, user_id, FALSE, {}, TRUE)
        hits == SelectSeq(listed,
                    LAMBDA i : <<"location_id", location_id>> \in S[i].metadata)
    IN IF hits # <<>>
       THEN [session |-> hits[1], is_new |-> FALSE, store |-> S,
             printed |-> {"session.id"}]
       ELSE [session |-> Len(S) + 1, is_new |-> TRUE,
             store |-> sessions_create(S, user_id, StarterMeta(location_id)),
             printed |-> {IF listed # <<>>
                          THEN "No session found amongst existing ones, creating new one"
                          ELSE "No active session found", "session.id"}]

\* messages.create(session_id, content, is_user)
messages_create(M, session_id, m, is_user) ==
    [M EXCEPT ![session_id] = Append(@, Turn(m, is_user))]

\* on_message up to its first await: the session is found or created and the
\* user's message is written (saved: the store accepted the write).
\* respond: a DM, a reply or a mention, and the content is not empty.
StarterOnMessage(f, u, c, respond, saved) ==
    /\ pc[f] = "idle"
    /\ events' = events + 1
    /\ \/ /\ ~respond
          /\ UNCHANGED <<pc, frame, report, storeVars, resolveHist>>
       \/ /\ respond
          /\ LET r == starter_session(sessions, u, c)
             IN /\ sessions' = r.store
                /\ last_resolve' = Resolution(u, c, TRUE, r, sessions)
                /\ resolved' = [resolved EXCEPT ![u, c] = r.session]
                /\ IF saved
                   THEN /\ messages' = messages_create(Logs(messages, r.store),
                                                       r.session, events + 1, TRUE)
                        /\ pc' = [pc EXCEPT ![f] = "starter_typing"]
                        /\ frame' = [frame EXCEPT ![f] =
                               [user |-> u, chan |-> c, session |-> r.session,
                                input |-> events + 1, left |-> 0]]
                        /\ UNCHANGED report
                   ELSE /\ messages' = Logs(messages, r.store)
                        /\ report' = [report EXCEPT ![f] = Ended(events + 1, "error")]
                        /\ UNCHANGED <<pc, frame>>
          /\ UNCHANGED deleted
    /\ UNCHANGED <<rateVars, rateCfg, otherVars, txnVars>>

\* the typing context is entered (or entering it raises), llm() answers and
\* the send is awaited
StarterTyping(f, entered) ==
    /\ pc[f] = "starter_typing"
    /\ IF entered
       THEN /\ pc' = [pc EXCEPT ![f] = "starter_sending"]
            /\ UNCHANGED <<frame, report>>
       ELSE /\ pc' = [pc EXCEPT ![f] = "idle"]
            /\ frame' = [frame EXCEPT ![f] = NoFrame]
            /\ report' = [report EXCEPT ![f] = Ended(frame[f].input, "error")]
    /\ UNCHANGED <<events, rateVars, rateCfg, otherVars, storeVars, resolveHist, txnVars>>

\* the awaited channel.send returns or raises; after it the assistant's
\* message is written (saved: the store accepted the write)
StarterSent(f, sent, saved) ==
    /\ pc[f] = "starter_sending"
    /\ messages' = IF sent /\ saved
                   THEN messages_create(messages, frame[f].session,
                                        frame[f].input, FALSE)
                   ELSE messages
    /\ report' = [report EXCEPT ![f] =
           Ended(frame[f].input, IF sent /\ saved THEN "ok" ELSE "error")]
    /\ pc' = [pc EXCEPT ![f] = "idle"]
    /\ frame' = [frame EXCEPT ![f] = NoFrame]
    /\ UNCHANGED <<sessions, events, rateVars, rateCfg, otherVars, resolveHist, txnVars>>

\* /restart: the first listed session of the location is deleted
StarterRestart(u, c) ==
    /\ events' = events + 1
    /\ LET listed == sessions_list(sessions, u, FALSE, {}, TRUE)
           hits == SelectSeq(listed,
                       LAMBDA i : <<"location_id", c>> \in sessions[i].metadata)
       IN IF hits # <<>>
          THEN /\ sessions' = sessions_delete(sessions, hits[1])
               /\ deleted' = deleted \cup {hits[1]}
               /\ resolved' = [resolved EXCEPT ![u, c] = None]
          ELSE UNCHANGED <<sessions, deleted, resolved>>
    /\ UNCHANGED <<messages, last_resolve, pc, frame, report, rateVars, rateCfg, otherVars,
                   txnVars>>

(***************************************************************************)
(* honcho_utils.honcho_transaction                                         *)
(***************************************************************************)
\* the innermost open scope of flow f, None outside every scope
Scope(f) == IF scopes[f] = <<>> THEN None ELSE scopes[f][Len(scopes[f])].tid

\* the transactions whose scope is open
OpenScopes == UNION {{scopes[f][i].tid : i \in 1..Len(scopes[f])} : f \in Flows}

\* the store shows a request outside its transaction once that is committed;
\* a request that carried no transaction id is visible at once
Visible(w) == w.tag = None \/ txn_status[w.tag] = "committed"

\* lines 56-62: the client's id is saved, a transaction is begun and its id
\* is put on the client; the generator is suspended at the yield
TxnEnter(f) ==
    /\ scopes' = [scopes EXCEPT ![f] =
           Append(@, [old |-> transaction_id, tid |-> Len(txn_status) + 1])]
    /\ txn_status' = Append(txn_status, "open")
    /\ txn_owner' = Append(txn_owner, f)
    /\ transaction_id' = Len(txn_status) + 1
    /\ UNCHANGED <<txn_exited, writes>>
    /\ UNCHANGED <<rateVars, rateCfg, otherVars, storeVars, pc, frame, events, report, resolveHist>>

\* flow f issues a request through the client: it carries the client's
\* transaction id, whatever scope f is in
TxnRequest(f) ==
    /\ writes' = Append(writes, [flow |-> f, scope |-> Scope(f),
                                 tag |-> transaction_id,
                                 open |-> transaction_id \in OpenScopes])
    /\ UNCHANGED <<transaction_id, txn_status, txn_owner, txn_exited, scopes>>
    /\ UNCHANGED <<rateVars, rateCfg, otherVars, storeVars, pc, frame, events, report, resolveHist>>

\* lines 63-64, and 65-67 when the commit raises: the body has completed
TxnExitNormal(f, committed) ==
    /\ scopes[f] # <<>>
    /\ LET top == scopes[f][Len(scopes[f])]
       IN /\ transaction_id' = top.old
          /\ txn_status' = [txn_status EXCEPT ![top.tid] =
                 IF committed THEN "committed" ELSE "rolled_back"]
          /\ txn_exited' = txn_exited \cup {top.tid}
    /\ scopes' = [scopes EXCEPT ![f] = SubSeq(@, 1, Len(@) - 1)]
    /\ UNCHANGED <<txn_owner, writes>>
    /\ UNCHANGED <<rateVars, rateCfg, otherVars, storeVars, pc, frame, events, report, resolveHist>>

\* lines 65-67: the body has raised an Exception
TxnExitException(f) ==
    /\ scopes[f] # <<>>
    /\ LET top == scopes[f][Len(scopes[f])]
       IN /\ txn_status' = [txn_status EXCEPT ![top.tid] = "rolled_back"]
          /\ txn_exited' = txn_exited \cup {top.tid}
    /\ scopes' = [scopes EXCEPT ![f] = SubSeq(@, 1, Len(@) - 1)]
    /\ UNCHANGED <<transaction_id, txn_owner, writes>>
    /\ UNCHANGED <<rateVars, rateCfg, otherVars, storeVars, pc, frame, events, report, resolveHist>>

\* the body has raised a BaseException that `except Exception` does not catch
\* (asyncio.CancelledError, KeyboardInterrupt, SystemExit) or the generator is
\* closed (GeneratorExit): no line of the function runs
TxnExitAbandoned(f) ==
    /\ scopes[f] # <<>>
    /\ txn_exited' = txn_exited \cup {scopes[f][Len(scopes[f])].tid}
    /\ scopes' = [scopes EXCEPT ![f] = SubSeq(@, 1, Len(@) - 1)]
    /\ UNCHANGED <<transaction_id, txn_status, txn_owner, writes>>
    /\ UNCHANGED <<rateVars, rateCfg, otherVars, storeVars, pc, frame, events, report, resolveHist>>

(***************************************************************************)
(* send_discord_message of src/src/bot.py.  A text is a sequence of         *)
(* characters; the limit, 1500 in the code, is an input of the model so    *)
(* that short texts meet it.                                               *)
(***************************************************************************)
LF == "\n"
CR == "\r"
\* the characters of the texts: one that ends no line, and the line endings
\* "\n", "\r" and (the two together) "\r\n" of str.splitlines
Chars == {"a", LF, CR}

\* the texts of at most n characters
RECURSIVE Texts(_)
Texts(n) ==
    IF n = 0 THEN {<<>>}
    ELSE Texts(n - 1) \cup {Append(t, ch) : t \in {u \in Texts(n - 1) : Len(u) = n - 1},
                                            ch \in Chars}

\* str.splitlines: s is what is left of the text, line the line being read
RECURSIVE splitlines_from(_, _, _)
splitlines_from(s, keepends, line) ==
    IF s = <<>> THEN (IF line = <<>> THEN <<>> ELSE <<line>>)
    ELSE IF Head(s) = CR /\ Tail(s) # <<>> /\ Head(Tail(s)) = LF
         THEN <<IF keepends THEN line \o <<CR, LF>> ELSE line>>
                  \o splitlines_from(Tail(Tail(s)), keepends, <<>>)
    ELSE IF Head(s) \in {LF, CR}
         THEN <<IF keepends THEN Append(line, Head(s)) ELSE line>>
                  \o splitlines_from(Tail(s), keepends, <<>>)
    ELSE splitlines_from(Tail(s), keepends, Append(line, Head(s)))

splitlines(s, keepends) == splitlines_from(s, keepends, <<>>)

\* faulty variant of the lines of the text: the line endings are dropped
response_lines_dropends(text) == splitlines(text, FALSE)

\* response_content.splitlines(keepends=True)
response_lines(text) == splitlines(text, TRUE)

RECURSIVE split_loop(_, _, _, _)

\* faulty variant of the loop: only the line is measured against the limit
split_loop_line_only(lines, chunks_, current_chunk, M) ==
    IF lines = <<>>
    THEN (IF current_chunk # <<>> THEN Append(chunks_, current_chunk) ELSE chunks_)
    ELSE IF Len(Head(lines)) > M
         THEN split_loop(Tail(lines), Append(chunks_, current_chunk), Head(lines), M)
         ELSE split_loop(Tail(lines), chunks_, current_chunk \o Head(lines), M)

\* faulty variant of the loop: the chunk is emitted after every line
split_loop_every_line(lines, chunks_, current_chunk, M) ==
    IF lines = <<>>
    THEN (IF current_chunk # <<>> THEN Append(chunks_, current_chunk) ELSE chunks_)
    ELSE IF current_chunk # <<>>
         THEN split_loop(Tail(lines), Append(chunks_, current_chunk), Head(lines), M)
         ELSE split_loop(Tail(lines), chunks_, current_chunk \o Head(lines), M)

\* the loop over the lines, and the `if current_chunk:` after it
split_loop(lines, chunks_, current_chunk, M) ==
    IF lines = <<>>
    THEN (IF current_chunk # <<>> THEN Append(chunks_, current_chunk) ELSE chunks_)
    ELSE IF Len(current_chunk) + Len(Head(lines)) > M
         THEN split_loop(Tail(lines), Append(chunks_, current_chunk), Head(lines), M)
         ELSE split_loop(Tail(lines), chunks_, current_chunk \o Head(lines), M)

\* the chunks send_discord_message sends for a text, in order
split_chunks(text, M) ==
    IF Len(text) > M
    THEN split_loop(response_lines(text), <<>>, <<>>, M)
    ELSE <<text>>

\* a sequence of texts, concatenated
RECURSIVE Concat(_)
Concat(ts) == IF ts = <<>> THEN <<>> ELSE Head(ts) \o Concat(Tail(ts))

\* send_discord_message up to its first await: the chunks are computed and the
\* send of the first is awaited
SendDiscordMessage ==
    /\ send_pc = "called"
    /\ chunks' = split_chunks(response_content, chunk_limit)
    /\ send_pc' = "sending"
    /\ UNCHANGED <<response_content, chunk_limit, delivered, botVars, toolVars>>

\* an awaited channel.send returns, and the next chunk is sent or the function
\* returns; or it raises, and the error leaves the function
ChunkSent(ok) ==
    /\ send_pc = "sending"
    /\ IF ok
       THEN /\ delivered' = Append(delivered, chunks[Len(delivered) + 1])
            /\ send_pc' = IF Len(delivered) + 1 = Len(chunks) THEN "returned" ELSE "sending"
       ELSE /\ send_pc' = "raised"
            /\ UNCHANGED delivered
    /\ UNCHANGED <<response_content, chunk_limit, chunks, botVars, toolVars>>

\* no send_discord_message call is modelled
InitSplitOff ==
    /\ response_content = <<>>
    /\ chunk_limit = 1
    /\ chunks = <<>>
    /\ delivered = <<>>
    /\ send_pc = "off"

(***************************************************************************)
(* GitHubTool of src/tools/github/github_tool.py.  self.repos is a dict:   *)
(* it is modelled by the sequence of its values in insertion order.  An    *)
(* Optional field is a sequence of at most one value.  Every method runs   *)
(* without suspension (initialize awaits only _check_repo_states, which    *)
(* awaits nothing), so a call is one action.                               *)
(***************************************************************************)
NOT_CLONED == "not_cloned"
CLONING == "cloning"
CLONED == "cloned"
UPDATING == "updating"
ERROR == "error"
STALE == "stale"
RepoStatus == {NOT_CLONED, CLONING, CLONED, UPDATING, ERROR, STALE}

\* repository URLs: a repository, a fork of it with the same name, a second
\* repository given in ssh form, and a URL add_repository rejects
Url(scheme, owner, name) == [scheme |-> scheme, owner |-> owner, name |-> name]
UrlHoncho == Url("https://", "plastic-labs", "honcho")
UrlFork == Url("https://", "fork", "honcho")
UrlNode == Url("git@", "plastic-labs", "honcho-node")
UrlHttp == Url("http://", "plastic-labs", "honcho-python")
Urls == {UrlHoncho, UrlFork, UrlNode, UrlHttp}

\* config.get_repo_name: the last component of the URL's path
get_repo_name(repo_url) == repo_url.name

\* config.get_local_repo_path: cache_dir / repo name
get_local_repo_path(repo_url) == <<"cache_dir", get_repo_name(repo_url)>>

\* config.get_default_branch: DEFAULT_BRANCHES.get(repo_url, "main")
get_default_branch(repo_url) == "main"

LocalPaths == {get_local_repo_path(u) : u \in Urls}

\* RepoInfo(url=, local_path=, branch=) with the defaults of the dataclass
RepoInfo(url, local_path, branch) ==
    [url |-> url, local_path |-> local_path, status |-> NOT_CLONED,
     last_updated |-> <<>>, last_checked |-> <<>>, branch |-> branch,
     commit_hash |-> <<>>, error_message |-> <<>>]

\* ToolStats(repos_managed=n)
ToolStats(n) ==
    [repos_managed |-> n, total_clones |-> 0, total_updates |-> 0,
     total_searches |-> 0, errors_encountered |-> 0]

\* the keys of self.repos
Tracked(R) == {R[i].url : i \in 1..Len(R)}

\* self.repos[repo_url]
repos_get(R, repo_url) == R[CHOOSE i \in 1..Len(R) : R[i].url = repo_url]

\* self.repos[info.url] = info: a key the dict holds keeps its place
repos_set(R, info) ==
    IF info.url \in Tracked(R)
    THEN [i \in 1..Len(R) |-> IF R[i].url = info.url THEN info ELSE R[i]]
    ELSE Append(R, info)

\* del self.repos[repo_url]
repos_del(R, repo_url) == SelectSeq(R, LAMBDA r : r.url # repo_url)

\* locks[repo_url] = the n-th asyncio.Lock() created
locks_set(L, repo_url, n) ==
    [u \in DOMAIN L \cup {repo_url} |-> IF u = repo_url THEN n ELSE L[u]]

\* del locks[repo_url]
locks_del(L, repo_url) == [u \in DOMAIN L \ {repo_url} |-> L[u]]

\* _initialize_repos over the URLs left; has_locks: self has the attribute
\* _clone_locks.  Without it the first `self._clone_locks[repo_url] = ...`
\* raises AttributeError, after the repository was entered in self.repos.
RECURSIVE initialize_repos(_, _, _, _, _)
initialize_repos(urls, R, has_locks, L, n) ==
    IF urls = <<>>
    THEN [repos |-> R, locks |-> L, created |-> n, raised |-> FALSE]
    ELSE LET repo_url == Head(urls)
             R2 == repos_set(R, RepoInfo(repo_url, get_local_repo_path(repo_url),
                                         get_default_branch(repo_url)))
         IN IF ~has_locks
            THEN [repos |-> R2, locks |-> L, created |-> n, raised |-> TRUE]
            ELSE initialize_repos(Tail(urls), R2, has_locks,
                                  locks_set(L, repo_url, n + 1), n + 1)

\* _validate_config: the error it raises, or "ok"
validate_config(cfg) ==
    IF cfg.repos_to_clone = <<>> THEN "ConfigurationError"
    ELSE IF cfg.cache_dir = "unset" THEN "ConfigurationError"
    ELSE IF cfg.cache_dir = "unwritable" THEN "ConfigurationError"
    ELSE "ok"

\* GitHubTool(config): __init__ from its first statement to its return or to
\* the error that leaves it
Construct ==
    /\ ctor = "new"
    /\ LET r == initialize_repos(config.repos_to_clone, <<>>, has_clone_locks,
                                 clone_locks, locks_created)
       IN IF r.raised
          THEN /\ ctor' = "AttributeError"
               /\ repos' = r.repos
               /\ UNCHANGED <<has_clone_locks, clone_locks, locks_created, stats>>
          ELSE /\ repos' = r.repos
               /\ stats' = ToolStats(Len(r.repos))
               /\ has_clone_locks' = TRUE
               /\ clone_locks' = <<>>
               /\ locks_created' = r.created
               /\ ctor' = IF validate_config(config) = "ok"
                          THEN "ok" ELSE validate_config(config)
    /\ UNCHANGED <<config, initialized, disk, last_call, found_missing, calls,
                   botVars, splitVars>>

\* faulty variant of is_available: a repository being updated counts
is_available_while_updating(info) == info.status \in {CLONED, UPDATING}

\* RepoInfo.is_available
is_available(info) == info.status = CLONED

\* the property available_repos: the URLs it holds, in the order of self.repos
available_repos(R) == SelectSeq(R, is_available)

\* the property cloned_repos
cloned_repos(R) == SelectSeq(R, LAMBDA info : info.status = CLONED)

\* RepoInfo.is_stale: never updated, or updated more than max_age_hours ago
\* (the clock counts seconds)
is_stale(info, max_age_hours) ==
    IF info.last_updated = <<>> THEN TRUE
    ELSE now - info.last_updated[1] > max_age_hours * 3600

\* the property stale_repos: is_stale() with its default of 24 hours
stale_repos(R) == SelectSeq(R, LAMBDA info : is_stale(info, 24))

\* local_path.exists() and (local_path / ".git").exists()
on_disk(info) == info.local_path \in disk

\* faulty variant of the round: a checkout never updated is marked STALE
check_repo_stale(info) ==
    [info EXCEPT !.last_checked = <<now>>,
                 !.status = IF info.local_path \in disk
                            THEN (IF info.last_updated = <<>> THEN STALE ELSE CLONED)
                            ELSE NOT_CLONED]

\* one round of the loop of _check_repo_states
check_repo(info) ==
    [info EXCEPT !.last_checked = <<now>>,
                 !.status = IF on_disk(info) THEN CLONED ELSE NOT_CLONED]

\* _check_repo_states.  fail_at = 0: every repository is checked; fail_at = k:
\* the exists() call on the k-th repository raises (an OSError other than
\* "not found"), after the repositories before it were checked.
check_repo_states(R, fail_at) ==
    [i \in 1..Len(R) |->
        IF fail_at = 0 \/ i < fail_at THEN check_repo(R[i])
        ELSE IF i = fail_at THEN [R[i] EXCEPT !.last_checked = <<now>>]
        ELSE R[i]]

Call(op, url, result) == [op |-> op, url |-> url, result |-> result]
NoUrl == Url("-", "-", "-")

\* initialize()
Initialize(fail_at) ==
    /\ ctor = "ok"
    /\ fail_at \in 0..Len(repos)
    /\ calls' = calls + 1
    /\ IF initialized
       THEN /\ last_call' = Call("initialize", NoUrl, "True")
            /\ UNCHANGED <<repos, initialized, found_missing>>
       ELSE /\ repos' = check_repo_states(repos, fail_at)
            /\ IF fail_at # 0
               THEN /\ last_call' = Call("initialize", repos[fail_at].url,
                                         "GitHubToolError")
                    /\ UNCHANGED <<initialized, found_missing>>
               ELSE /\ initialized' = TRUE
                    /\ found_missing' = found_missing \cup
                           {repos'[i].url : i \in {j \in 1..Len(repos) :
                                                     repos'[j].status = NOT_CLONED}}
                    /\ last_call' = Call("initialize", NoUrl, "True")
    /\ UNCHANGED <<config, ctor, has_clone_locks, clone_locks, locks_created,
                   stats, disk, botVars, splitVars>>

\* add_repository(repo_url, branch); branch = <<>> is None
AddRepository(repo_url, branch) ==
    /\ ctor = "ok"
    /\ calls' = calls + 1
    /\ IF repo_url \in Tracked(repos)
       THEN /\ last_call' = Call("add_repository", repo_url, "RepoInfo")
            /\ UNCHANGED <<repos, clone_locks, locks_created, stats>>
       ELSE IF repo_url.scheme \notin {"https://", "git@"}
       THEN /\ last_call' = Call("add_repository", repo_url, "ConfigurationError")
            /\ UNCHANGED <<repos, clone_locks, locks_created, stats>>
       ELSE /\ repos' = repos_set(repos,
                           RepoInfo(repo_url, get_local_repo_path(repo_url),
                                    IF branch = <<>> THEN "main" ELSE branch[1]))
            /\ clone_locks' = locks_set(clone_locks, repo_url, locks_created + 1)
            /\ locks_created' = locks_created + 1
            /\ stats' = [stats EXCEPT !.repos_managed = Len(repos')]
            /\ last_call' = Call("add_repository", repo_url, "RepoInfo")
    /\ UNCHANGED <<config, ctor, has_clone_locks, initialized, disk,
                   found_missing, botVars, splitVars>>

\* remove_repository(repo_url)
RemoveRepository(repo_url) ==
    /\ ctor = "ok"
    /\ calls' = calls + 1
    /\ IF repo_url \notin Tracked(repos)
       THEN /\ last_call' = Call("remove_repository", repo_url, "False")
            /\ UNCHANGED <<repos, clone_locks, stats>>
       ELSE /\ repos' = repos_del(repos, repo_url)
            /\ clone_locks' = IF repo_url \in DOMAIN clone_locks
                              THEN locks_del(clone_locks, repo_url)
                              ELSE clone_locks
            /\ stats' = [stats EXCEPT !.repos_managed = Len(repos')]
            /\ last_call' = Call("remove_repository", repo_url, "True")
    /\ UNCHANGED <<config, ctor, has_clone_locks, locks_created, initialized,
                   disk, found_missing, botVars, splitVars>>

\* the cache directory changes under the tool: a checkout appears at a path
\* or goes
DiskChange(path) ==
    /\ disk' = IF path \in disk THEN disk \ {path} ELSE disk \cup {path}
    /\ UNCHANGED <<config, ctor, repos, has_clone_locks, clone_locks,
                   locks_created, stats, initialized, last_call, found_missing,
                   calls, botVars, splitVars>>

\* a query of the properties available_repos and cloned_repos
QueryAvailable ==
    /\ last_call.op # "available_repos"
    /\ last_call' = Call("available_repos", NoUrl,
                         <<available_repos(repos), cloned_repos(repos)>>)
    /\ UNCHANGED <<config, ctor, repos, has_clone_locks, clone_locks,
                   locks_created, stats, initialized, disk, found_missing,
                   calls, botVars, splitVars>>

\* a query of the property stale_repos
QueryStale ==
    /\ last_call.op # "stale_repos"
    /\ last_call' = Call("stale_repos", NoUrl, stale_repos(repos))
    /\ UNCHANGED <<config, ctor, repos, has_clone_locks, clone_locks,
                   locks_created, stats, initialized, disk, found_missing,
                   calls, botVars, splitVars>>

\* no GitHubTool is modelled
InitToolOff ==
    /\ config = [repos_to_clone |-> <<>>, cache_dir |-> "unset"]
    /\ ctor = "off"
    /\ repos = <<>>
    /\ has_clone_locks = FALSE
    /\ clone_locks = <<>>
    /\ locks_created = 0
    /\ stats = ToolStats(0)
    /\ initialized = FALSE
    /\ disk = {}
    /\ last_call = Call("-", NoUrl, "-")
    /\ found_missing = {}
    /\ calls = 0

(***************************************************************************)
(* Initial states                                                          *)
(***************************************************************************)
\* the rate limit configurations a run starts from, (RATE_LIMIT_PER_MINUTE,
\* rate_limits.json): here c1 has a configured limit and c2 the default
RateConfigs == {<<1, ("c1" :> 2)>>}

InitBot ==
    /\ now = 0
    /\ response_timestamps = [c \in Chans |-> <<>>]
    /\ recorded = [c \in Chans |-> <<>>]
    /\ last_admit = [chan |-> "-", at |-> 0, limited |-> FALSE, seen |-> 0]
    /\ sessions = <<>>
    /\ messages = <<>>
    /\ pc = [f \in Flows |-> "idle"]
    /\ frame = [f \in Flows |-> NoFrame]
    /\ events = 0
    /\ report = [f \in Flows |-> Ended(0, "none")]
    /\ last_resolve = NoResolve
    /\ resolved = [p \in Users \X Chans |-> None]
    /\ deleted = {}
    /\ transaction_id = None
    /\ txn_status = <<>>
    /\ txn_owner = <<>>
    /\ txn_exited = {}
    /\ writes = <<>>
    /\ scopes = [f \in Flows |-> <<>>]

InitCommon ==
    /\ InitBot
    /\ InitSplitOff
    /\ InitToolOff

Init ==
    /\ InitCommon
    /\ \E cfg \in RateConfigs :
          /\ rate_limit_default = cfg[1]
          /\ channel_rate_limits = cfg[2]

(***************************************************************************)
(* Spec: the bot of src/src/bot.py within one second of the clock          *)
(***************************************************************************)
Next ==
    \/ /\ events < MaxEvents
       /\ \E f \in Flows, p \in Pairs, respond \in BOOLEAN :
              OnMessage(f, p[1], p[2], respond)
    \/ \E f \in Flows : NoticeSent(f)
    \/ \E f \in Flows, k \in 1..MaxChunks, entered \in BOOLEAN : Typing(f, k, entered)
    \/ \E f \in Flows, sent \in BOOLEAN, saved \in BOOLEAN : Sent(f, sent, saved)
    \/ /\ events < MaxEvents
       /\ \E f \in Flows, p \in Pairs : Restart(f, p[1], p[2])
    \/ \E f \in Flows : RestartBody(f)
    \/ /\ events < MaxEvents
       /\ \E f \in Flows, p \in Pairs : Dialectic(f, p[1], p[2])
    \/ \E f \in Flows : DialecticBody(f)
    \/ /\ events < MaxEvents
       /\ \E p \in Pairs : Lookup(p[1], p[2])

Spec == Init /\ [][Next]_vars

(***************************************************************************)
(* SpecStarter: the starter bot of src/bot.py                              *)
(***************************************************************************)
InitStarter ==
    /\ InitCommon
    /\ rate_limit_default = 1
    /\ channel_rate_limits = <<>>

NextStarter ==
    \/ /\ events < MaxEvents
       /\ \E f \in Flows, p \in Pairs, respond \in BOOLEAN, saved \in BOOLEAN :
              StarterOnMessage(f, p[1], p[2], respond, saved)
    \/ \E f \in Flows, entered \in BOOLEAN : StarterTyping(f, entered)
    \/ \E f \in Flows, sent \in BOOLEAN, saved \in BOOLEAN : StarterSent(f, sent, saved)
    \/ /\ events < MaxEvents
       /\ \E p \in Pairs : StarterRestart(p[1], p[2])

SpecStarter == InitStarter /\ [][NextStarter]_vars

(***************************************************************************)
(* SpecRate: the messages of one user in two channels while time passes    *)
(***************************************************************************)
\* (RATE_LIMIT_PER_MINUTE, rate_limits.json): no file, a channel with a higher
\* limit, a channel that is switched off
RateConfigsAll == {<<1, <<>>>>, <<1, ("c1" :> 2)>>, <<2, ("c2" :> 0)>>}

\* the steps the clock advances in: 30 + 30 is the window, 30 + 31 is past it
TickSteps == {30, 31}

InitRate ==
    /\ InitCommon
    /\ \E cfg \in RateConfigsAll :
          /\ rate_limit_default = cfg[1]
          /\ channel_rate_limits = cfg[2]

NextRate ==
    \/ /\ events < MaxEvents
       /\ \E f \in Flows, c \in Chans, respond \in BOOLEAN :
              OnMessage(f, "u1", c, respond)
    \/ \E f \in Flows : NoticeSent(f)
    \/ \E f \in Flows, entered \in BOOLEAN : Typing(f, 1, entered)
    \/ \E f \in Flows, sent \in BOOLEAN : Sent(f, sent, TRUE)
    \/ \E d \in TickSteps : now + d <= MaxTime /\ Tick(d)

SpecRate == InitRate /\ [][NextRate]_vars

(***************************************************************************)
(* SpecSeq: the rate limiter when the messages of a channel are handled one *)
(* at a time: every channel has its own flow, so a message of a channel is  *)
(* taken up only when the handler of the one before has ended, while the    *)
(* handlers of different channels interleave.                               *)
(***************************************************************************)
ChanFlow == [c \in Chans |-> IF c = "c1" THEN "f1" ELSE "f2"]

NextSeq ==
    \/ /\ events < MaxEvents
       /\ \E c \in Chans, respond \in BOOLEAN :
              OnMessage(ChanFlow[c], "u1", c, respond)
    \/ \E f \in Flows : NoticeSent(f)
    \/ \E f \in Flows, entered \in BOOLEAN : Typing(f, 1, entered)
    \/ \E f \in Flows, sent \in BOOLEAN : Sent(f, sent, TRUE)
    \/ \E d \in TickSteps : now + d <= MaxTime /\ Tick(d)

SpecSeq == InitRate /\ [][NextSeq]_vars

(***************************************************************************)
(* SpecTxn: flows that use honcho_transaction on the shared client.  The   *)
(* body of a scope is the caller's code: it may issue requests, open a     *)
(* nested scope, await (other flows then run) and end in any way.          *)
(***************************************************************************)
NextTxn ==
    \/ /\ Len(txn_status) < MaxTxns
       /\ \E f \in Flows : Len(scopes[f]) < MaxDepth /\ TxnEnter(f)
    \/ /\ Len(writes) < MaxRequests
       /\ \E f \in Flows : TxnRequest(f)
    \/ \E f \in Flows, committed \in BOOLEAN : TxnExitNormal(f, committed)
    \/ \E f \in Flows : TxnExitException(f)
    \/ \E f \in Flows : TxnExitAbandoned(f)

SpecTxn == InitStarter /\ [][NextTxn]_vars

(***************************************************************************)
(* SpecSplit: send_discord_message on every text of at most MaxLen         *)
(* characters, under every limit from 1 to MaxLimit                        *)
(***************************************************************************)
InitSplit ==
    /\ InitBot
    /\ rate_limit_default = 1
    /\ channel_rate_limits = <<>>
    /\ response_content \in Texts(MaxLen)
    /\ chunk_limit \in 1..MaxLimit
    /\ chunks = <<>>
    /\ delivered = <<>>
    /\ send_pc = "called"
    /\ InitToolOff

NextSplit ==
    \/ SendDiscordMessage
    \/ \E ok \in BOOLEAN : ChunkSent(ok)

SpecSplit == InitSplit /\ [][NextSplit]_vars

(***************************************************************************)
(* SpecCtor: GitHubTool(config) for every list of at most MaxRepos URLs    *)
(* and every state of the cache directory                                  *)
(***************************************************************************)
\* the lists of at most n URLs
RECURSIVE UrlLists(_)
UrlLists(n) ==
    IF n = 0 THEN {<<>>}
    ELSE UrlLists(n - 1) \cup {Append(l, u) : l \in {k \in UrlLists(n - 1) : Len(k) = n - 1},
                                               u \in Urls}

InitNoTool ==
    /\ InitBot
    /\ rate_limit_default = 1
    /\ channel_rate_limits = <<>>
    /\ InitSplitOff

InitCtor ==
    /\ InitNoTool
    /\ config \in [repos_to_clone : UrlLists(MaxRepos),
                   cache_dir : {"writable", "unwritable", "unset"}]
    /\ ctor = "new"
    /\ repos = <<>>
    /\ has_clone_locks = FALSE
    /\ clone_locks = <<>>
    /\ locks_created = 0
    /\ stats = ToolStats(0)
    /\ initialized = FALSE
    /\ disk = {}
    /\ last_call = Call("-", NoUrl, "-")
    /\ found_missing = {}
    /\ calls = 0

NextCtor == Construct

SpecCtor == InitCtor /\ [][NextCtor]_vars

(***************************************************************************)
(* SpecTool: the methods of GitHubTool, called in any order on an instance *)
(* that tracks its configured repositories as __init__'s statements enter  *)
(* them: every repository NOT_CLONED, _initialized False, and _clone_locks *)
(* either as line 186 fills it or as line 169 leaves it.  (SpecCtor is     *)
(* __init__ as it runs.)  The cache directory changes at any time.         *)
(***************************************************************************)
\* the configured lists: one repository, two repositories, and a repository
\* with a fork of the same name
ToolRepoLists == {<<UrlHoncho>>, <<UrlHoncho, UrlNode>>, <<UrlHoncho, UrlFork>>}

InitTool ==
    /\ InitNoTool
    /\ config \in [repos_to_clone : ToolRepoLists, cache_dir : {"writable"}]
    /\ ctor = "ok"
    /\ LET r == initialize_repos(config.repos_to_clone, <<>>, TRUE, <<>>, 0)
       IN /\ repos = r.repos
          /\ clone_locks \in {r.locks, <<>>}
          /\ locks_created = r.created
          /\ stats = ToolStats(Len(r.repos))
    /\ has_clone_locks = TRUE
    /\ initialized = FALSE
    /\ disk \in SUBSET LocalPaths
    /\ last_call = Call("-", NoUrl, "-")
    /\ found_missing = {}
    /\ calls = 0

NextTool ==
    \/ /\ calls < MaxCalls
       /\ \E fail_at \in 0..Len(repos) : Initialize(fail_at)
    \/ /\ calls < MaxCalls
       /\ \E u \in Urls, branch \in {<<>>, <<"dev">>} : AddRepository(u, branch)
    \/ /\ calls < MaxCalls
       /\ \E u \in Urls : RemoveRepository(u)
    \/ \E path \in LocalPaths : DiskChange(path)

SpecTool == InitTool /\ [][NextTool]_vars

(***************************************************************************)
(* SpecAvail: is_available, available_repos and stale_repos on              *)
(* repositories in every status                                            *)
(***************************************************************************)
UrlOrder == <<UrlHoncho, UrlFork, UrlNode, UrlHttp>>

\* RepoInfo(url=, local_path=, branch=, status=)
RepoInfoIn(url, status) ==
    [RepoInfo(url, get_local_repo_path(url), get_default_branch(url))
        EXCEPT !.status = status]

InitAvail ==
    /\ InitNoTool
    /\ config = [repos_to_clone |-> <<>>, cache_dir |-> "writable"]
    /\ ctor = "ok"
    /\ \E k \in 0..MaxRepos :
          \E st \in [1..k -> RepoStatus] :
              repos = [i \in 1..k |-> RepoInfoIn(UrlOrder[i], st[i])]
    /\ has_clone_locks = TRUE
    /\ clone_locks = <<>>
    /\ locks_created = 0
    /\ stats = ToolStats(Len(repos))
    /\ initialized = FALSE
    /\ disk = {}
    /\ last_call = Call("-", NoUrl, "-")
    /\ found_missing = {}
    /\ calls = 0

NextAvail ==
    \/ QueryAvailable
    \/ QueryStale

SpecAvail == InitAvail /\ [][NextAvail]_vars

(***************************************************************************)
(* SpecResolve: the resolver of honcho_utils on a store that already holds  *)
(* sessions when the bot starts.  The Honcho store is a remote service that *)
(* outlives the process and is written by every client of the app, so the   *)
(* sessions it holds at the start are an input: any owners, any locations,  *)
(* active or not, two active sessions of one pair included.                 *)
(***************************************************************************)
RECURSIVE Stores(_)
Stores(n) ==
    IF n = 0 THEN {<<>>}
    ELSE Stores(n - 1) \cup
         {Append(S, [owner |-> u, metadata |-> LocationMeta(c), is_active |-> a]) :
             S \in {T \in Stores(n - 1) : Len(T) = n - 1},
             u \in Users, c \in Chans, a \in BOOLEAN}

InitResolve ==
    /\ now = 0
    /\ response_timestamps = [c \in Chans |-> <<>>]
    /\ recorded = [c \in Chans |-> <<>>]
    /\ last_admit = [chan |-> "-", at |-> 0, limited |-> FALSE, seen |-> 0]
    /\ sessions \in Stores(MaxStored)
    /\ messages = [i \in 1..Len(sessions) |-> <<>>]
    /\ pc = [f \in Flows |-> "idle"]
    /\ frame = [f \in Flows |-> NoFrame]
    /\ events = 0
    /\ report = [f \in Flows |-> Ended(0, "none")]
    /\ last_resolve = NoResolve
    /\ resolved = [p \in Users \X Chans |-> None]
    /\ deleted = {i \in 1..Len(sessions) : ~sessions[i].is_active}
    /\ transaction_id = None
    /\ txn_status = <<>>
    /\ txn_owner = <<>>
    /\ txn_exited = {}
    /\ writes = <<>>
    /\ scopes = [f \in Flows |-> <<>>]
    /\ rate_limit_default = 1
    /\ channel_rate_limits = <<>>
    /\ InitSplitOff
    /\ InitToolOff

NextResolve ==
    \/ /\ events < MaxResolves
       /\ \E p \in Pairs : Restart("f1", p[1], p[2])
    \/ RestartBody("f1")
    \/ /\ events < MaxResolves
       /\ \E p \in Pairs : Dialectic("f1", p[1], p[2])
    \/ DialecticBody("f1")
    \/ /\ events < MaxResolves
       /\ \E p \in Pairs : Lookup(p[1], p[2])

SpecResolve == InitResolve /\ [][NextResolve]_vars

(***************************************************************************)
(* Claims                                                                  *)
(***************************************************************************)
\* session i is tagged with location c, as either bot tags its sessions
At(i, c) ==
    <<c, TRUE>> \in sessions[i].metadata \/ <<"location_id", c>> \in sessions[i].metadata

\* the active sessions the store holds for (u, c)
ActiveFor(u, c) ==
    {i \in 1..Len(sessions) :
        sessions[i].owner = u /\ sessions[i].is_active /\ At(i, c)}

InFlight(f) == pc[f] \in {"typing", "sending"}

\* C1: whatever the interleaving of the handlers that resolve (on_message,
\* dialectic) and reset (restart) sessions, the store holds at most one active
\* session for every (owner, location) pair in every state.
C1_AtMostOneActive ==
    \A u \in Users, c \in Chans : Cardinality(ActiveFor(u, c)) <= 1

\* C1's case: two message flows of the same pair are in flight on the same
\* active session after a reset of that pair has deleted an earlier one.
C1_Witness ==
    \E f, g \in Flows :
        /\ f # g
        /\ InFlight(f) /\ InFlight(g)
        /\ frame[f].user = frame[g].user /\ frame[f].chan = frame[g].chan
        /\ frame[f].session = frame[g].session
        /\ ActiveFor(frame[f].user, frame[f].chan) = {frame[f].session}
        /\ \E i \in deleted : sessions[i].owner = frame[f].user /\ At(i, frame[f].chan)

\* C2: a resolve(O, L, create=True) that follows another one for the same pair
\* with no reset in between returns the same session id, reports is_new = False
\* and issues no create call.
C2_ResolveTwice ==
    (last_resolve.create /\ last_resolve.prev # None) =>
        /\ last_resolve.session = last_resolve.prev
        /\ ~last_resolve.is_new
        /\ ~last_resolve.created

\* C2's case: the last resolution was the second of two with no reset between.
C2_Witness ==
    /\ last_resolve.create
    /\ last_resolve.prev # None
    /\ last_resolve.session = last_resolve.prev

\* C3: the first message of a pair is handled in a newly created session, a
\* following resolve(create=False) returns that session, and once a reset has
\* deleted a session no later resolution returns it: the next message of the
\* pair is handled in a new session.
C3_ResetEndToEnd ==
    /\ ~last_resolve.stale
    /\ (last_resolve.create /\ last_resolve.prev = None) => last_resolve.is_new
    /\ (~last_resolve.create /\ last_resolve.prev # None) =>
           last_resolve.session = last_resolve.prev

\* the turns of message m in the logs
HasTurn(m, is_user) ==
    \E s \in 1..Len(messages) :
        \E i \in 1..Len(messages[s]) : messages[s][i] = Turn(m, is_user)

\* C4: a handled message leaves both of its turns in the log or neither, or
\* else its handler reports a partial write.
C4_PairOrPartialWrite ==
    \A f \in Flows :
        (report[f].msg # 0 /\ HasTurn(report[f].msg, TRUE) # HasTurn(report[f].msg, FALSE))
            => report[f].how = "partial"

\* C5: every transaction whose scope has been left, on whatever path, is
\* committed or rolled back.
C5_ReleasedOnEveryExit ==
    \A t \in txn_exited : txn_status[t] \in {"committed", "rolled_back"}

\* C6: a request issued inside a scope is visible outside it only once that
\* scope has committed (so never, if the scope is rolled back).
C6_NoLeakBeforeCommit ==
    \A i \in 1..Len(writes) :
        (writes[i].scope # None /\ Visible(writes[i]))
            => txn_status[writes[i].scope] = "committed"

\* C7: a request that is attached to the transaction of an open scope was
\* issued by the flow that opened the scope.
C7_OnlyOwnRequests ==
    \A i \in 1..Len(writes) :
        (writes[i].tag # None /\ writes[i].open)
            => txn_owner[writes[i].tag] = writes[i].flow

\* the limit of channel c: its configured value if it has one, else the default
LimitOf(c) ==
    IF c \in DOMAIN channel_rate_limits THEN channel_rate_limits[c]
    ELSE rate_limit_default

\* the responses among the first n recorded for channel c that lie in the
\* 60 seconds up to time t
InWindow(c, n, t) == {i \in 1..n : t - recorded[c][i] <= 60}

\* C8: is_rate_limited admits (returns False) exactly when fewer responses
\* than the channel's limit were recorded for the channel in the trailing 60
\* seconds; with limit 1 an admit within 60 seconds of a record is denied.
C8_AdmitIffUnderLimit ==
    last_admit.chan # "-" =>
        LET c == last_admit.chan
            n == last_admit.seen
        IN /\ ~last_admit.limited <=>
                  Cardinality(InWindow(c, n, last_admit.at)) < LimitOf(c)
           /\ (LimitOf(c) = 1 /\ n > 0 /\ last_admit.at - recorded[c][n] <= 60)
                  => last_admit.limited

\* C8's case: a channel with a configured limit of 2 is admitted with two
\* responses recorded, of which one has left the window.
C8_Witness ==
    /\ last_admit.chan \in DOMAIN channel_rate_limits
    /\ channel_rate_limits[last_admit.chan] = 2
    /\ last_admit.seen = 2
    /\ Cardinality(InWindow(last_admit.chan, 2, last_admit.at)) = 1
    /\ ~last_admit.limited

\* C9: with a limit of at least 1, an admit made more than 60 seconds after
\* the channel's last recorded response is admitted.
C9_AdmittedAfterWindow ==
    (/\ last_admit.chan # "-"
     /\ last_admit.seen > 0
     /\ last_admit.at - recorded[last_admit.chan][last_admit.seen] > 60
     /\ LimitOf(last_admit.chan) >= 1)
        => ~last_admit.limited

\* C9's case: a channel with limit 1 has a response recorded (so that an admit
\* within the window is denied) and is admitted more than 60 seconds later.
C9_Witness ==
    /\ last_admit.chan # "-"
    /\ LimitOf(last_admit.chan) = 1
    /\ last_admit.seen > 0
    /\ last_admit.at - recorded[last_admit.chan][last_admit.seen] > 60
    /\ ~last_admit.limited

\* C10: admission records nothing: no is_rate_limited call adds a timestamp,
\* so a flow admitted while another admitted flow has not recorded yet is
\* admitted on the same count.
C10_AdmitRecordsNothing ==
    [][last_admit' # last_admit =>
          \A c \in Chans : Len(response_timestamps'[c]) <= Len(response_timestamps[c])]_vars

\* C10's case: two flows passed admission before either recorded, and the
\* channel holds more responses recorded within 60 seconds than its limit.
C10_Witness ==
    \E c \in Chans :
        /\ LimitOf(c) >= 1
        /\ Cardinality(InWindow(c, Len(recorded[c]), now)) > LimitOf(c)
        /\ \A i \in 1..Len(recorded[c]) : recorded[c][i] >= last_admit.at

\* C11: the limiter's state is per channel: a step that neither admits nor
\* records for channel b (an is_rate_limited or record_response call for
\* another channel, in any interleaving) leaves b's timestamps as they were
\* and does not change what an admit on b returns.
C11_PerChannelFrame ==
    [][\A b \in Chans :
          (/\ now' = now
           /\ ~(last_admit' # last_admit /\ last_admit'.chan = b)
           /\ recorded'[b] = recorded[b])
              => /\ response_timestamps'[b] = response_timestamps[b]
                 /\ is_rate_limited(b)' = is_rate_limited(b)]_vars

\* C11's case: channel a is at its limit of 1, and an admit on channel b made
\* after a's response was recorded, within a's window, is admitted.
C11_Witness ==
    \E a, b \in Chans :
        /\ a # b
        /\ LimitOf(a) = 1 /\ LimitOf(b) = 1
        /\ Len(recorded[a]) > 0
        /\ is_rate_limited(a)
        /\ last_admit.chan = b
        /\ ~last_admit.limited
        /\ last_admit.at >= recorded[a][Len(recorded[a])]
        /\ last_admit.at - recorded[a][Len(recorded[a])] <= 60

\* C12: for every text and every limit of at least 1, the chunks
\* send_discord_message computes, concatenated in the order they are sent,
\* are the text: no character is lost, duplicated or moved.
C12_ChunksReproduceText ==
    /\ send_pc \in {"sending", "returned", "raised"} =>
           Concat(chunks) = response_content
    /\ send_pc = "returned" => Concat(delivered) = response_content

\* C12's case: a text with "\r\n" in it has been sent in two or more chunks.
C12_Witness ==
    /\ send_pc = "returned"
    /\ Len(delivered) >= 2
    /\ \E i \in 1..(Len(response_content) - 1) :
           response_content[i] = CR /\ response_content[i + 1] = LF

\* C13: every chunk is at most the limit long, except a chunk that is one
\* single line longer than the limit, which is sent whole.
C13_ChunksWithinLimit ==
    \A i \in 1..Len(chunks) :
        \/ Len(chunks[i]) <= chunk_limit
        \/ Len(splitlines(chunks[i], TRUE)) = 1

\* C13's case: the chunks sent include a line longer than the limit, on its
\* own, and a chunk of two lines.
C13_Witness ==
    /\ send_pc = "returned"
    /\ \E i \in 1..Len(delivered) : Len(delivered[i]) > chunk_limit
    /\ \E i \in 1..Len(delivered) : Len(splitlines(delivered[i], TRUE)) = 2

\* C17: one lock per tracked repository: once the manager is constructed
\* from a valid configuration, and after every add_repository and
\* remove_repository call, the URLs that have a lock are the tracked URLs,
\* and the lock of a repository that stays tracked is not replaced.
C17_OneLockPerRepo ==
    [][/\ (ctor' \notin {"off", "new"} /\ validate_config(config') = "ok")
            => /\ ctor' = "ok"
               /\ has_clone_locks'
               /\ DOMAIN clone_locks' = Tracked(repos')
       /\ \A u \in Tracked(repos) \cap Tracked(repos') :
              (u \in DOMAIN clone_locks /\ u \in DOMAIN clone_locks')
                  => clone_locks'[u] = clone_locks[u]]_vars

StatusSteps ==
    {<<NOT_CLONED, CLONING>>, <<CLONING, CLONED>>, <<CLONED, UPDATING>>,
     <<UPDATING, CLONED>>, <<CLONING, ERROR>>, <<UPDATING, ERROR>>,
     <<ERROR, CLONING>>, <<ERROR, UPDATING>>}

\* the status of a tracked repository moved from a to b in the step
StatusMoved(u, a, b) ==
    /\ u \in Tracked(repos) \cap Tracked(repos')
    /\ repos_get(repos, u).status = a
    /\ repos_get(repos', u).status = b

C18_AvailableIffCloned ==
    /\ \A i \in 1..Len(repos) :
           /\ is_available(repos[i]) <=> repos[i].status = CLONED
           /\ repos[i].status \in {NOT_CLONED, CLONING, UPDATING, ERROR}
                  => ~is_available(repos[i])
    /\ last_call.op = "available_repos" =>
           {last_call.result[1][i].url : i \in 1..Len(last_call.result[1])}
               = {u \in Tracked(repos) : repos_get(repos, u).status = CLONED}

\* C18's case: available_repos was read on a tool with a repository in
\* CLONED, one in UPDATING and one in ERROR.
C18_Witness ==
    /\ last_call.op = "available_repos"
    /\ Len(last_call.result[1]) = 1
    /\ \E i, j, k \in 1..Len(repos) :
           /\ repos[i].status = CLONED
           /\ repos[j].status = UPDATING
           /\ repos[k].status = ERROR

C21_ConfigurationErrorOnly ==
    ctor \notin {"off", "new"} =>
        /\ ctor \in {"ok", "ConfigurationError"}
        /\ ctor = "ConfigurationError" <=> validate_config(config) # "ok"
        /\ ctor = "ok" =>
               /\ Tracked(repos) = {config.repos_to_clone[i] :
                                       i \in 1..Len(config.repos_to_clone)}
               /\ \A i \in 1..Len(repos) : repos[i].status = NOT_CLONED

\* a step that is one call of get_session with create=False: Lookup is the
\* only step that starts an event without moving a handler
LookupStep == events' = events + 1 /\ pc' = pc

\* a step in which a handler resolves its session with create=True
CreateStep == \E f \in Flows : pc[f] \in {"deferred", "restarting"} /\ pc'[f] = "idle"

\* C22: a call with create=False for a pair that has no matching active
\* session returns (None, False), creates nothing and leaves the sessions of
\* the store as they were.
C22_LookupWithoutCreate ==
    [][(LookupStep /\ ActiveFor(last_resolve'.user, last_resolve'.chan) = {}) =>
          /\ last_resolve'.create = FALSE
          /\ last_resolve'.session = None
          /\ last_resolve'.is_new = FALSE
          /\ last_resolve'.created = FALSE
          /\ sessions' = sessions
          /\ messages' = messages]_vars

\* a lookup of a pair with no active session has returned, on a store that
\* holds an inactive session of the pair and a session of another pair
C22_Witness ==
    /\ last_resolve.create = FALSE
    /\ last_resolve.user # "-"
    /\ last_resolve.session = None
    /\ ActiveFor(last_resolve.user, last_resolve.chan) = {}
    /\ \E i \in 1..Len(sessions) :
          /\ sessions[i].owner = last_resolve.user
          /\ At(i, last_resolve.chan)
          /\ ~sessions[i].is_active
    /\ \E u \in Users, c \in Chans : ActiveFor(u, c) # {}

\* C23: a resolution with create=True always returns a session: an active
\* session of the pair, with is_new False and no create call, when the store
\* holds one; otherwise the session it has just created for the owner with
\* the location metadata, with is_new True; and it creates at most once.
C23_ResolveAlwaysReturns ==
    [][CreateStep =>
          LET u == last_resolve'.user
              c == last_resolve'.chan
              s == last_resolve'.session
          IN /\ last_resolve'.create
             /\ s # None
             /\ Len(sessions') <= Len(sessions) + 1
             /\ ActiveFor(u, c) # {} =>
                   /\ s \in ActiveFor(u, c)
                   /\ ~last_resolve'.is_new
                   /\ ~last_resolve'.created
                   /\ Len(sessions') = Len(sessions)
             /\ ActiveFor(u, c) = {} =>
                   /\ s = Len(sessions) + 1
                   /\ last_resolve'.is_new
                   /\ last_resolve'.created
                   /\ Len(sessions') = Len(sessions) + 1
                   /\ sessions'[s].owner = u
                   /\ sessions'[s].metadata = LocationMeta(c)]_vars

\* a resolution has found the active session of its pair, the last session
\* of a store that also holds an inactive session of the same pair
C23_Witness ==
    /\ last_resolve.create
    /\ ~last_resolve.is_new
    /\ last_resolve.session \in ActiveFor(last_resolve.user, last_resolve.chan)
    /\ last_resolve.session = Len(sessions)
    /\ Len(sessions) > 1
    /\ \E i \in 1..Len(sessions) - 1 :
          /\ sessions[i].owner = last_resolve.user
          /\ At(i, last_resolve.chan)
          /\ ~sessions[i].is_active

\* C24: when the store holds more than one active session for the pair being
\* resolved, the resolution still returns one of them, the one it returns
\* does not depend on the order in which the store lists them, and a warning
\* is reported.
C24_DeterministicPickAndWarning ==
    [][((LookupStep \/ CreateStep) /\
        Cardinality(ActiveFor(last_resolve'.user, last_resolve'.chan)) > 1) =>
          LET u == last_resolve'.user
              c == last_resolve'.chan
              listed == sessions_list(sessions, u, TRUE, LocationMeta(c), FALSE)
              reversed == sessions_list(sessions, u, TRUE, LocationMeta(c), TRUE)
          IN /\ last_resolve'.session \in ActiveFor(u, c)
             /\ last_resolve'.session = pick_session(listed)
             /\ pick_session(listed) = pick_session(reversed)
             /\ last_resolve'.printed # {}]_vars

\* the session a resolution of (u, c) returns from the store as it is
Pick(u, c) == get_session(sessions, u, LocationMeta(c), FALSE).session

\* the session the last resolution returned belongs to the owner it was
\* resolved for and is tagged with the location it was resolved for
ResolvedOwn ==
    last_resolve.session # None =>
        /\ last_resolve.session \in 1..Len(sessions)
        /\ sessions[last_resolve.session].owner = last_resolve.user
        /\ At(last_resolve.session, last_resolve.chan)

\* C30: a resolution of (O, L) returns no session of another owner or of
\* another location, and a step that creates or resets the session of (O, L)
\* leaves what a resolution of every other pair returns as it was.
C30_KeysIsolated ==
    [][(sessions' # sessions \/ last_resolve' # last_resolve) =>
          /\ ResolvedOwn'
          /\ \A p \in Users \X Chans :
                p # <<last_resolve'.user, last_resolve'.chan>> =>
                    Pick(p[1], p[2])' = Pick(p[1], p[2])]_vars

\* a session of (O, L1) has been created and reset while the store holds an
\* active session of the same owner at another location and one of another
\* owner at L1
C30_Witness ==
    /\ last_resolve.create
    /\ last_resolve.created
    /\ ~sessions[last_resolve.session].is_active
    /\ \E c \in Chans \ {last_resolve.chan} : Pick(last_resolve.user, c) # None
    /\ \E u \in Users \ {last_resolve.user} : Pick(u, last_resolve.chan) # None

\* the handlers whose response to a message in channel c has been sent in
\* full in this step: the awaited send returned and the handler ran to its end
SentInFull(c) ==
    {f \in Flows : /\ pc[f] = "sending"
                   /\ pc'[f] = "idle"
                   /\ frame[f].chan = c
                   /\ report'[f].how \in {"ok", "unsaved"}}

\* C25: record_response is called once for a message when the send of its
\* last chunk has returned, and in no other step: not when a message is
\* ignored or denied, not between chunks, not when a send raises.
C25_RecordedOncePerSentResponse ==
    [][\A c \in Chans :
          /\ SentInFull(c) = {} =>
                /\ recorded'[c] = recorded[c]
                /\ Len(response_timestamps'[c]) <= Len(response_timestamps[c])
          /\ SentInFull(c) # {} =>
                /\ recorded'[c] = Append(recorded[c], now)
                /\ response_timestamps'[c] = Append(response_timestamps[c], now)
                /\ \A f \in SentInFull(c) : frame[f].left = 1]_vars

\* of three messages in one channel one was answered and recorded, the send
\* for another raised, and the third was denied or ignored
C25_Witness ==
    \E c \in Chans, f, g \in Flows :
        /\ events = 3
        /\ f # g
        /\ report[f].how = "ok"
        /\ report[g].how = "error"
        /\ report[g].msg # 0
        /\ Len(recorded[c]) = 1
        /\ \A d \in Chans \ {c} : recorded[d] = <<>>
        /\ \A h \in Flows : pc[h] = "idle"
        /\ \E s \in 1..Len(messages) : Len(messages[s]) = 2

\* C26: every channel's timestamps are in non-decreasing order, and the
\* channel of the last is_rate_limited call has held no timestamp more than
\* 60 seconds older than that call ever since it returned.
C26_OrderedAndEvicted ==
    /\ \A c \in Chans :
          \A i, j \in 1..Len(response_timestamps[c]) :
              i < j => response_timestamps[c][i] <= response_timestamps[c][j]
    /\ last_admit.chan # "-" =>
          \A i \in 1..Len(response_timestamps[last_admit.chan]) :
              last_admit.at - response_timestamps[last_admit.chan][i] <= Window

\* an is_rate_limited call has just returned on a channel with two responses
\* recorded at different times: the older one was evicted from the front and
\* the newer one, still within the window, was kept
C26_Witness ==
    /\ last_admit.chan # "-"
    /\ last_admit.at = now
    /\ last_admit.seen = 2
    /\ Len(recorded[last_admit.chan]) = 2
    /\ recorded[last_admit.chan][1] < recorded[last_admit.chan][2]
    /\ now - recorded[last_admit.chan][1] > Window
    /\ response_timestamps[last_admit.chan] = <<recorded[last_admit.chan][2]>>

\* a step of the handler f of a denied message: is_rate_limited returns True
\* and the notice is awaited, or the notice has been sent and f returns
DeniedStep(f) ==
    \/ pc[f] = "idle" /\ pc'[f] = "notice"
    \/ pc[f] = "notice" /\ pc'[f] = "idle"

\* the channel of the denied message f handles
DeniedChan(f) == IF pc[f] = "notice" THEN frame[f].chan ELSE frame'[f].chan

\* what a denied handler leaves alone whatever the reading: it goes from the
\* notice to its end and nowhere else, the session store, the logs and the
\* resolver's history are as they were, and no timestamp is recorded
DeniedFrame(f) ==
    /\ pc[f] = "notice" => pc'[f] = "idle"
    /\ sessions' = sessions
    /\ messages' = messages
    /\ last_resolve' = last_resolve
    /\ recorded' = recorded

\* C28 as stated: the handler of a denied message leaves the session store
\* and the timestamps of every channel exactly as they were.
C28_DeniedChangesNothing ==
    [][\A f \in Flows :
          DeniedStep(f) =>
              /\ DeniedFrame(f)
              /\ response_timestamps' = response_timestamps]_vars

\* C28: the handler of a denied message only sends the notice: it resolves
\* and creates no session, writes no turn, calls no model and records no
\* timestamp; the session store is unchanged, and the timestamps of its
\* channel change only by losing, from the front, those older than 60 s.
C28_DeniedOnlyEvicts ==
    [][\A f \in Flows :
          DeniedStep(f) =>
              /\ DeniedFrame(f)
              /\ \A c \in Chans \ {DeniedChan(f)} :
                    response_timestamps'[c] = response_timestamps[c]
              /\ LET old == response_timestamps[DeniedChan(f)]
                     new == response_timestamps'[DeniedChan(f)]
                 IN \E k \in 0..Len(old) :
                       /\ new = SubSeq(old, k + 1, Len(old))
                       /\ \A i \in 1..k : now - old[i] > Window]_vars

\* a message is denied (its notice is being sent) by a call that evicted the
\* older of the channel's two timestamps and counted the newer one, on a store
\* that holds a session
C28_Witness ==
    \E f \in Flows :
        /\ pc[f] = "notice"
        /\ last_admit.chan = frame[f].chan
        /\ last_admit.limited
        /\ last_admit.at = now
        /\ last_admit.seen = 2
        /\ Len(recorded[frame[f].chan]) = 2
        /\ now - recorded[frame[f].chan][1] > Window
        /\ response_timestamps[frame[f].chan] = <<recorded[frame[f].chan][2]>>
        /\ sessions # <<>>

\* C29: in every session's log an assistant turn comes right after the user
\* turn of the same message, and a user turn that is not the last entry is
\* followed by its own reply: the turns of two messages never interleave.
C29_TurnsAdjacent ==
    \A s \in 1..Len(messages) :
        \A i \in 1..Len(messages[s]) :
            /\ ~messages[s][i].is_user =>
                  /\ i > 1
                  /\ messages[s][i - 1] = Turn(messages[s][i].msg, TRUE)
            /\ (messages[s][i].is_user /\ i < Len(messages[s])) =>
                  messages[s][i + 1] = Turn(messages[s][i].msg, FALSE)

\* the lines of a sequence of chunks, chunk after chunk
RECURSIVE LinesOf(_)
LinesOf(cs) ==
    IF cs = <<>> THEN <<>>
    ELSE splitlines(Head(cs), TRUE) \o LinesOf(Tail(cs))

\* C31: the chunks are made of whole consecutive lines of the text, line
\* endings kept, and a chunk ends only where the next line would not fit:
\* the length of a chunk that is not the last plus the length of the first
\* line of the next chunk is more than the limit.
C31_GreedyLineAligned ==
    send_pc \in {"sending", "returned", "raised"} =>
        /\ LinesOf(chunks) = response_lines(response_content)
        /\ \A i \in 1..(Len(chunks) - 1) :
              /\ chunks[i + 1] # <<>>
              /\ Len(chunks[i]) + Len(splitlines(chunks[i + 1], TRUE)[1]) > chunk_limit

\* C31's case: a first chunk of two lines that is shorter than the limit and
\* ends because the next line would not fit
C31_Witness ==
    /\ send_pc = "returned"
    /\ Len(chunks) >= 2
    /\ Len(splitlines(chunks[1], TRUE)) = 2
    /\ Len(chunks[1]) < chunk_limit

\* C33: no chunk handed to the transport is empty, whatever the text longer
\* than the limit, a text whose first line is longer than the limit included.
C33_NoEmptyChunk ==
    (send_pc \in {"sending", "returned", "raised"} /\ Len(response_content) > chunk_limit) =>
        \A i \in 1..Len(chunks) : Len(chunks[i]) >= 1

\* C32: every repository stale_repos reports is in CLONED, and reading
\* stale_repos leaves every repository as it was.
C32_StaleOnlyIfCloned ==
    [][(last_call' # last_call /\ last_call'.op = "stale_repos") =>
          /\ repos' = repos
          /\ \A i \in 1..Len(last_call'.result) :
                last_call'.result[i].status = CLONED]_vars

\* C34: when a flow leaves a honcho_transaction scope, on whatever path, the
\* client's transaction_id is the value it had when that scope was entered,
\* and it is not the id of a transaction whose scope has been left.
C34_TransactionIdRestored ==
    [][\A f \in Flows :
          Len(scopes'[f]) < Len(scopes[f]) =>
              /\ transaction_id' = scopes[f][Len(scopes[f])].old
              /\ transaction_id' \notin txn_exited']_vars

\* C35: the repositories tracked at the same time have pairwise different
\* local paths.
C35_DistinctLocalPaths ==
    \A i, j \in 1..Len(repos) :
        repos[i].url # repos[j].url => repos[i].local_path # repos[j].local_path

\* C36: a restart for a pair that has no active session creates no session
\* and leaves the sessions of the store as they were, and when a restart has
\* completed the pair has no active session.
C36_ResetCreatesNothing ==
    [][\A f \in Flows :
          (pc[f] = "restarting" /\ pc'[f] = "idle") =>
              /\ ActiveFor(frame[f].user, frame[f].chan) = {} =>
                    /\ sessions' = sessions
                    /\ ~last_resolve'.created
              /\ ActiveFor(frame[f].user, frame[f].chan)' = {}]_vars

\* C37: when the messages of a channel are handled one at a time and the
\* channel's limit is at least 1, no 60-second window, whether it ends at a
\* recorded response or now, holds more recorded responses of the channel
\* than its limit, and the channel's deque never holds more than limit
\* timestamps.
C37_WindowWithinLimit ==
    \A c \in Chans :
        LimitOf(c) >= 1 =>
            /\ \A k \in 1..Len(recorded[c]) :
                  Cardinality(InWindow(c, k, recorded[c][k])) <= LimitOf(c)
            /\ Cardinality(InWindow(c, Len(recorded[c]), now)) <= LimitOf(c)
            /\ Len(response_timestamps[c]) <= LimitOf(c)

\* C37's case: a channel with limit 2 has recorded a third response, admitted
\* once the first had left the window, and its deque is at the limit
C37_Witness ==
    \E c \in Chans :
        /\ LimitOf(c) = 2
        /\ Len(recorded[c]) = 3
        /\ recorded[c][3] = now
        /\ recorded[c][3] - recorded[c][2] <= Window
        /\ Len(response_timestamps[c]) = 2

====
